---- MODULE Spec2Model ----
(***************************************************************************)
(* The staff Lambda function (lambda/src/staff/src/main.rs): one HTTP      *)
(* invocation at a time against the staff table of the MySQL store.        *)
(*                                                                         *)
(* Text values (query parameters) are sequences of one-character strings,  *)
(* so that starts_with and parse::<i32> are computed character by          *)
(* character.  Option<T> is a sequence of length 0 (None) or 1 (Some).     *)
(***************************************************************************)
EXTENDS Integers, Sequences, FiniteSets, TLC

VARIABLES
    table,          \* rows of the staff table, in insertion order
    auto_increment, \* the store's next staff_id
    now,            \* the store's CURRENT_TIMESTAMP (last_update of an insert)
    pc,             \* position of the running invocation
    event,          \* the inbound Request of the running invocation
    method,         \* function_handler's local `method`
    path,           \* function_handler's local `path`
    conn,           \* TRUE while the invocation holds a PooledConn
    acquired,       \* try_get_conn successes of this invocation
    stmts,          \* statements this invocation executed on the store
    flow,           \* the flow the router dispatched to
    page_num,       \* get_staff's local `page_num`
    showform,       \* get_staff's local `showform`
    staff,          \* get_staff's local `staff` (Vec<Staff>)
    payload,        \* post_staff's local `payload`
    logged_key,     \* the "Last generated key" log line of this invocation
    created,        \* every successful insert: generated key and payload
    result          \* what the invocation returned to the runtime

vars == << table, auto_increment, now, pc, event, method, path, conn, acquired,
           stmts, flow, page_num, showform, staff, payload, logged_key,
           created, result >>

store_vars == << table, auto_increment, now, created >>
local_vars == << page_num, showform, staff, payload, logged_key >>

-----------------------------------------------------------------------------
(* Bounds of the model *)

MaxCreates == 1     \* inserts the store accepts in one run

(* Program constants *)

I32Max == 2147483647
I32Min == -I32Max - 1
PageSize == 10
StatusOk == 200
StatusSeeOther == 303

None == << >>
Some(x) == << x >>
IsSome(o) == Len(o) = 1
Unwrap(o) == o[1]

-----------------------------------------------------------------------------
(* i32 arithmetic.  An overflowing operation panics when the build checks  *)
(* overflow (debug profile) and wraps modulo 2^32 otherwise (release).     *)

\* a + b wrapped into i32, computed without leaving the i32 range
WrappingAdd(a, b) ==
    IF a >= 0 /\ b >= 0 /\ a > I32Max - b
        THEN (a - I32Max - 1) + (b - I32Max - 1)
    ELSE IF a < 0 /\ b < 0 /\ a < I32Min - b
        THEN (a + I32Max + 1) + (b + I32Max + 1)
    ELSE a + b

AddOverflows(a, b) ==
    \/ a >= 0 /\ b >= 0 /\ a > I32Max - b
    \/ a < 0 /\ b < 0 /\ a < I32Min - b

\* a * 10 wrapped into i32: 10a = 8a + 2a, by wrapping doublings
WrappingMul10(a) ==
    LET a2 == WrappingAdd(a, a)
        a4 == WrappingAdd(a2, a2)
        a8 == WrappingAdd(a4, a4)
    IN  WrappingAdd(a8, a2)

Mul10Overflows(a) == a > I32Max \div 10 \/ a < -(I32Max \div 10)

-----------------------------------------------------------------------------
(* str::parse::<i32> and str::starts_with *)

Digits == << "0", "1", "2", "3", "4", "5", "6", "7", "8", "9" >>
IsDigit(c) == \E i \in 1..10 : Digits[i] = c
DigitVal(c) == (CHOOSE i \in 1..10 : Digits[i] = c) - 1

starts_with(s, c) == Len(s) >= 1 /\ s[1] = c

\* the digits of s from position i on, accumulated on acc with checked
\* arithmetic: Some(value), or None on an invalid digit or an overflow
RECURSIVE ParseDigits(_, _, _, _)
ParseDigits(s, i, acc, negative) ==
    IF i > Len(s) THEN Some(acc)
    ELSE IF ~IsDigit(s[i]) THEN None
    ELSE LET d == DigitVal(s[i]) IN
         IF negative
            THEN IF acc < -((I32Max - (IF d = 0 THEN 0 ELSE d - 1)) \div 10)
                    THEN None
                    ELSE ParseDigits(s, i + 1, acc * 10 - d, negative)
            ELSE IF acc > (I32Max - d) \div 10
                    THEN None
                    ELSE ParseDigits(s, i + 1, acc * 10 + d, negative)

parse_i32(s) ==
    IF Len(s) = 0 THEN None
    ELSE IF Len(s) = 1 /\ s[1] \in {"+", "-"} THEN None
    ELSE IF s[1] = "+" THEN ParseDigits(s, 2, 0, FALSE)
    ELSE IF s[1] = "-" THEN ParseDigits(s, 2, 0, TRUE)
    ELSE ParseDigits(s, 1, 0, FALSE)

\* decimal rendering of n >= 0 (Display for i32)
RECURSIVE to_string(_)
to_string(n) ==
    IF n < 10 THEN << Digits[n + 1] >>
    ELSE Append(to_string(n \div 10), Digits[(n % 10) + 1])

-----------------------------------------------------------------------------
(* The staff table and the three statements of the data access layer *)

\* struct Staff: staff_id and the five optional text fields
Staff(id, f) ==
    [ staff_id |-> id, first_name |-> f.first_name, last_name |-> f.last_name,
      email |-> f.email, username |-> f.username, password |-> f.password ]

\* a row of the table: the selected columns plus last_update
Row(id, f, t) ==
    [ staff_id |-> id, first_name |-> f.first_name, last_name |-> f.last_name,
      email |-> f.email, username |-> f.username, password |-> f.password,
      last_update |-> t ]

\* the six columns every SELECT of the program names
SelectColumns(r) == Staff(r.staff_id, r)

\* the insert taking the identity from the client's payload
InsertRowClientId(f, t) == Append(table, Row(f.staff_id, f, t))

\* INSERT INTO staff (first_name, ..., password, store_id, address_id): the
\* store assigns staff_id (AUTO_INCREMENT) and last_update (its clock)
InsertRow(f, t) == Append(table, Row(auto_increment, f, t))

\* ... WHERE staff_id=:staff_id, exec_first: the first matching row, if any
SelectById(id_text) ==
    LET hits == { i \in 1..Len(table) : to_string(table[i].staff_id) = id_text }
    IN  IF hits = {} THEN None
        ELSE Some(SelectColumns(table[CHOOSE i \in hits : \A j \in hits : i <= j]))

\* ORDER BY last_update desc: rows of equal last_update come in an order the
\* store chooses; tie is that choice (by ascending or descending staff_id)
Before(a, b, tie) ==
    \/ a.last_update > b.last_update
    \/ /\ a.last_update = b.last_update
       /\ IF tie = "asc" THEN a.staff_id < b.staff_id ELSE a.staff_id > b.staff_id

OrderByLastUpdateDesc(tie) ==
    LET n == Len(table)
        rank(i) == 1 + Cardinality({ j \in 1..n : Before(table[j], table[i], tie) })
    IN  [ k \in 1..n |-> table[CHOOSE i \in 1..n : rank(i) = k] ]

\* the listing without its LIMIT
SelectPageNoLimit(offset, tie) ==
    LET sorted == OrderByLastUpdateDesc(tie)
        n == Len(sorted)
    IN  IF offset >= n THEN << >>
        ELSE [ k \in 1..(n - offset) |-> SelectColumns(sorted[offset + k]) ]

\* ... ORDER BY last_update desc LIMIT 10 OFFSET :offset, for offset >= 0
SelectPage(offset, tie) ==
    LET sorted == OrderByLastUpdateDesc(tie)
        n == Len(sorted)
    IN  IF offset >= n THEN << >>
        ELSE LET last == IF n - offset <= PageSize THEN n ELSE offset + PageSize
             IN  [ k \in 1..(last - offset) |-> SelectColumns(sorted[offset + k]) ]

-----------------------------------------------------------------------------
(* Inputs: the requests the runtime may hand to function_handler *)

NoFields == [ first_name |-> None, last_name |-> None, email |-> None,
              username |-> None, password |-> None ]
AllFields == [ first_name |-> Some("Ana"), last_name |-> Some("Lee"),
               email |-> Some("a@x.com"), username |-> Some("ana"),
               password |-> Some("p") ]

\* which of the five text fields a body carries: none, all, any one and any
\* four of them, so that every field occurs absent and present next to every
\* other field absent and present
FieldChoices ==
    { S \in SUBSET (1..5) : Cardinality(S) \in { 0, 1, 4, 5 } }

\* the field values of those bodies, present fields carrying AllFields' values
FieldSets ==
    { [ first_name |-> IF 1 \in S THEN AllFields.first_name ELSE None,
        last_name |-> IF 2 \in S THEN AllFields.last_name ELSE None,
        email |-> IF 3 \in S THEN AllFields.email ELSE None,
        username |-> IF 4 \in S THEN AllFields.username ELSE None,
        password |-> IF 5 \in S THEN AllFields.password ELSE None ] :
      S \in FieldChoices }

\* request bodies: no (or an unsupported) content type, a body that is not
\* an object, and objects with or without a staff_id member
NoBody == [ kind |-> "none", staff_id |-> None, fields |-> NoFields ]
MalformedBody == [ kind |-> "malformed", staff_id |-> None, fields |-> NoFields ]
ObjectBodies ==
    { [ kind |-> "object", staff_id |-> id, fields |-> f ] :
      id \in { None, Some(1) }, f \in FieldSets }
Bodies == { NoBody, MalformedBody } \cup ObjectBodies

\* values of the `page` query parameter
PageTexts ==
    { None, Some(<< >>), Some(<< "-", "3" >>), Some(<< "0" >>), Some(<< "1" >>),
      Some(<< "2" >>), Some(<< "+", "1" >>), Some(<< "x" >>),
      Some(to_string(I32Max \div 10 + 1)), Some(to_string(429496730)),
      Some(to_string(I32Max)), Some(Append(to_string(I32Max \div 10), "8")) }

NewTexts == { None, Some("t") }
StaffIdTexts == { None, Some(to_string(1)), Some(to_string(PageSize + 2)),
                  Some(to_string(42)) }

NoQuery == [ page |-> None, new |-> None, staff_id |-> None ]
Queries == [ page : PageTexts, new : NewTexts, staff_id : StaffIdTexts ]

Contexts == { "ApiGatewayV2", "Alb" }
Methods == { "GET", "POST", "DELETE" }
Paths == { "/staff", "/other", "/staff/" }

MkEvent(c, m, p, q, b) ==
    [ context |-> c, http_method |-> m, raw_http_path |-> p, query |-> q, body |-> b ]

Events ==
    { MkEvent("ApiGatewayV2", "GET", "/staff", q, NoBody) : q \in Queries }
    \cup { MkEvent("ApiGatewayV2", "POST", "/staff", NoQuery, b) : b \in Bodies }
    \cup { MkEvent(c, m, p, qb[1], qb[2]) :
           c \in Contexts, m \in Methods, p \in Paths,
           qb \in { << NoQuery, NoBody >>,
                    << [ NoQuery EXCEPT !.staff_id = Some(to_string(1)) ],
                       [ kind |-> "object", staff_id |-> Some(1),
                         fields |-> AllFields ] >> } }

\* the table the function is deployed against: empty, or PageSize + 1 rows
SeedRow(i) ==
    Row(i, [ AllFields EXCEPT !.password = IF i % 2 = 0 THEN None ELSE Some("p") ],
        i % 2)
SeedTables == { << >>, [ i \in 1..(PageSize + 1) |-> SeedRow(i) ] }

-----------------------------------------------------------------------------
(* Results of an invocation and the records the handlers build *)

NoResult ==
    [ kind |-> "none", status |-> 0, location |-> None, content_type |-> None,
      view |-> None, why |-> "" ]

\* a panic unwinds out of function_handler; the runtime reports a failure
Panic(why) == [ NoResult EXCEPT !.kind = "panic", !.why = why ]
\* an Err(..) propagated by `?`
Failure(why) == [ NoResult EXCEPT !.kind = "error", !.why = why ]
\* Response::builder().status(..).header(..).body(..)
Redirect ==
    [ NoResult EXCEPT !.kind = "response", !.status = StatusSeeOther,
                      !.location = Some("/staff") ]
Html(view) ==
    [ NoResult EXCEPT !.kind = "response", !.status = StatusOk,
                      !.content_type = Some("text/html"), !.view = Some(view) ]

Pagination(page, next, prev) == [ page |-> page, next |-> next, prev |-> prev ]

Statement(op, id_text, offset) ==
    [ op |-> op, id_text |-> id_text, offset |-> offset, held |-> conn ]

\* event.payload::<Staff>(): Ok(Some(staff)) only for an object that carries
\* staff_id (a required i32 field of Staff); the five Option fields may be absent
ParsePayload(body) ==
    IF body.kind = "object" /\ IsSome(body.staff_id)
        THEN Some(Staff(Unwrap(body.staff_id), body.fields))
        ELSE None

\* the page match without its starts_with("-") arm
ResolvePageNoGuard(page) ==
    IF IsSome(page)
        THEN LET parsed == parse_i32(Unwrap(page))
             IN  IF IsSome(parsed) THEN Unwrap(parsed) ELSE 0
    ELSE 0

\* the match on params.first("page")
ResolvePage(page) ==
    IF IsSome(page) /\ starts_with(Unwrap(page), "-") THEN 0
    ELSE IF IsSome(page)
        THEN LET parsed == parse_i32(Unwrap(page))
             IN  IF IsSome(parsed) THEN Unwrap(parsed) ELSE 0
    ELSE 0

\* the match on params.first("new")
ResolveShowform(new) == new = Some("t")

\* a router that matches the path alone
RoutePathOnly(m, p) ==
    IF p = "/staff" THEN (IF m = "POST" THEN "create" ELSE "read") ELSE "none"

\* the match of router
Route(m, p) ==
    IF m = "GET" /\ p = "/staff" THEN "read"
    ELSE IF m = "POST" /\ p = "/staff" THEN "create"
    ELSE "none"

\* a read flow that lists whenever it is asked to
ReadBranchListOnly(staff_id) == "get_list_staff"

\* the match on params.first("staff_id")
ReadBranch(staff_id) ==
    IF IsSome(staff_id) THEN "get_single_staff" ELSE "get_list_staff"

\* the match on the request context
ResolveMethod(e) ==
    IF e.context = "ApiGatewayV2" THEN e.http_method ELSE "UNKNOWN"

-----------------------------------------------------------------------------
(* The invocation, step by step *)

\* an exit that keeps the connection
FinishLeaky(r) ==
    /\ result' = r
    /\ pc' = "done"
    /\ UNCHANGED conn

\* every exit of the invocation: the result goes to the runtime and the
\* PooledConn is dropped (at the return, or by the unwinding of a panic)
Finish(r) ==
    /\ result' = r
    /\ conn' = FALSE
    /\ pc' = "done"

IdleEvent == MkEvent("ApiGatewayV2", "GET", "/staff", NoQuery, NoBody)

\* the runtime calls function_handler: method and path are extracted
function_handler ==
    /\ pc = "idle"
    /\ \E e \in Events :
        /\ event' = e
        /\ path' = e.raw_http_path
        /\ method' = ResolveMethod(e)
    /\ pc' = "connect"
    /\ UNCHANGED << store_vars, local_vars, conn, acquired, stmts, flow, result >>

\* run(service_fn(function_handler)): the runtime takes the invocation's
\* result; nothing of the invocation is kept for the next one
run ==
    /\ pc = "done"
    /\ pc' = "idle"
    /\ event' = IdleEvent
    /\ method' = ""
    /\ path' = ""
    /\ conn' = FALSE
    /\ acquired' = 0
    /\ stmts' = << >>
    /\ flow' = "none"
    /\ page_num' = 0
    /\ showform' = FALSE
    /\ staff' = << >>
    /\ payload' = None
    /\ logged_key' = None
    /\ result' = NoResult
    /\ UNCHANGED store_vars

\* env::var(..).unwrap(), Pool::new(..)?, pool.try_get_conn(1000)
connect ==
    /\ pc = "connect"
    /\ \E outcome \in { "ok", "no_url", "pool_error", "timeout" } :
        CASE outcome = "ok" ->
                /\ conn' = TRUE
                /\ acquired' = acquired + 1
                /\ pc' = "router"
                /\ UNCHANGED result
          [] outcome = "no_url" ->
                /\ Finish(Panic("MYSQL_URL"))
                /\ UNCHANGED acquired
          [] outcome = "pool_error" ->
                /\ Finish(Failure("pool"))
                /\ UNCHANGED acquired
          [] outcome = "timeout" ->
                /\ Finish(Panic("Failed to connect to backend"))
                /\ UNCHANGED acquired
    /\ UNCHANGED << store_vars, local_vars, event, method, path, stmts, flow >>

router ==
    /\ pc = "router"
    /\ LET to == Route(method, path) IN
        /\ flow' = to
        /\ IF to = "read" THEN pc' = "get_staff" /\ UNCHANGED << conn, result >>
           ELSE IF to = "create" THEN pc' = "post_staff" /\ UNCHANGED << conn, result >>
           ELSE Finish(Panic("Failed to match method and path"))
    /\ UNCHANGED << store_vars, local_vars, event, method, path, acquired, stmts >>

\* get_staff up to the match on staff_id
get_staff ==
    /\ pc = "get_staff"
    /\ page_num' = ResolvePage(event.query.page)
    /\ showform' = ResolveShowform(event.query.new)
    /\ pc' = ReadBranch(event.query.staff_id)
    /\ UNCHANGED << store_vars, event, method, path, conn, acquired, stmts, flow,
                    staff, payload, logged_key, result >>

get_single_staff ==
    /\ pc = "get_single_staff"
    /\ LET id_text == Unwrap(event.query.staff_id) IN
        /\ stmts' = Append(stmts, Statement("select_by_id", id_text, 0))
        /\ \E store_ok \in BOOLEAN :
            IF ~store_ok THEN Finish(Failure("store")) /\ UNCHANGED staff
            ELSE LET row == SelectById(id_text) IN
                 IF IsSome(row)
                    THEN /\ staff' = << Unwrap(row) >>
                         /\ conn' = FALSE
                         /\ pc' = "render"
                         /\ UNCHANGED result
                    ELSE Finish(Panic("unwrap on None")) /\ UNCHANGED staff
    /\ UNCHANGED << store_vars, event, method, path, acquired, flow, page_num,
                    showform, payload, logged_key >>

get_list_staff ==
    /\ pc = "get_list_staff"
    /\ \E overflow_checks \in BOOLEAN :
        IF Mul10Overflows(page_num) /\ overflow_checks
            THEN /\ Finish(Panic("attempt to multiply with overflow"))
                 /\ UNCHANGED << staff, stmts >>
            ELSE LET offset == WrappingMul10(page_num) IN
                 /\ stmts' = Append(stmts, Statement("select_page", << >>, offset))
                 /\ \E store_ok \in BOOLEAN, tie \in { "asc", "desc" } :
                     IF ~store_ok \/ offset < 0
                        THEN Finish(Failure("store")) /\ UNCHANGED staff
                        ELSE /\ staff' = SelectPage(offset, tie)
                             /\ conn' = FALSE
                             /\ pc' = "render"
                             /\ UNCHANGED result
    /\ UNCHANGED << store_vars, event, method, path, acquired, flow, page_num,
                    showform, payload, logged_key >>

\* get_staff from the Pagination on: view model, rendering, response
render ==
    /\ pc = "render"
    /\ \E overflow_checks \in BOOLEAN :
        IF (AddOverflows(page_num, 1) \/ AddOverflows(page_num, -1)) /\ overflow_checks
            THEN Finish(Panic("attempt to add with overflow"))
            ELSE Finish(Html([ staff |-> staff,
                               pagination |-> Pagination(page_num,
                                                         WrappingAdd(page_num, 1),
                                                         WrappingAdd(page_num, -1)),
                               showform |-> showform ]))
    /\ UNCHANGED << store_vars, local_vars, event, method, path, acquired, stmts, flow >>

\* post_staff up to the payload match
post_staff ==
    /\ pc = "post_staff"
    /\ LET parsed == ParsePayload(event.body) IN
        IF IsSome(parsed)
            THEN /\ payload' = parsed
                 /\ pc' = "insert"
                 /\ UNCHANGED << conn, result >>
            ELSE /\ Finish(Panic("Can't create staff from input"))
                 /\ UNCHANGED payload
    /\ UNCHANGED << store_vars, event, method, path, acquired, stmts, flow,
                    page_num, showform, staff, logged_key >>

\* an insert whose rejection still leaves its row behind
insert_partial ==
    /\ pc = "insert"
    /\ stmts' = Append(stmts, Statement("insert", << >>, 0))
    /\ \E t \in { now, now + 1 } :
        /\ table' = InsertRow(Unwrap(payload), t)
        /\ now' = t
        /\ auto_increment' = auto_increment + 1
    /\ Finish(Failure("store"))
    /\ UNCHANGED << created, logged_key, event, method, path, acquired, flow,
                    page_num, showform, staff, payload >>

\* conn.exec_drop(INSERT ..)? and the log of conn.last_insert_id()
insert ==
    /\ pc = "insert"
    /\ stmts' = Append(stmts, Statement("insert", << >>, 0))
    /\ \E store_ok \in BOOLEAN, t \in { now, now + 1 } :
        IF store_ok /\ Len(created) < MaxCreates
            THEN /\ table' = InsertRow(Unwrap(payload), t)
                 /\ now' = t
                 /\ logged_key' = Some(auto_increment)
                 /\ created' = Append(created, [ key |-> auto_increment,
                                                 payload |-> Unwrap(payload) ])
                 /\ auto_increment' = auto_increment + 1
                 /\ pc' = "respond"
                 /\ UNCHANGED << conn, result >>
            ELSE /\ Finish(Failure("store"))
                 /\ UNCHANGED << store_vars, logged_key >>
    /\ UNCHANGED << event, method, path, acquired, flow, page_num, showform,
                    staff, payload >>

\* post_staff's response
respond ==
    /\ pc = "respond"
    /\ Finish(Redirect)
    /\ UNCHANGED << store_vars, local_vars, event, method, path, acquired, stmts, flow >>

Init ==
    /\ table \in SeedTables
    /\ auto_increment = Len(table) + 1
    /\ now = IF table = << >> THEN 0 ELSE 1
    /\ created = << >>
    /\ pc = "idle"
    /\ event = IdleEvent
    /\ method = ""
    /\ path = ""
    /\ conn = FALSE
    /\ acquired = 0
    /\ stmts = << >>
    /\ flow = "none"
    /\ page_num = 0
    /\ showform = FALSE
    /\ staff = << >>
    /\ payload = None
    /\ logged_key = None
    /\ result = NoResult

Next ==
    \/ function_handler
    \/ connect
    \/ router
    \/ get_staff
    \/ get_single_staff
    \/ get_list_staff
    \/ render
    \/ post_staff
    \/ insert
    \/ respond
    \/ run

Spec == Init /\ [][Next]_vars

-----------------------------------------------------------------------------
(* The read flow on its own, entered with every short text as the page     *)
(* parameter: the state router leaves for a GET /staff.                     *)

MaxPageLen == 2     \* longest page text enumerated character by character

PageAlphabet == { "-", "+", "0", "1", "9", "x" }
ShortTexts == UNION { [ 1..k -> PageAlphabet ] : k \in 0..MaxPageLen }

\* boundary texts longer than MaxPageLen
LongTexts ==
    { << "0", "0", "0", "0", "0", "0", "0", "0", "0", "0", "0", "1", "2" >>,
      << "+" >> \o to_string(I32Max),
      << "+" >> \o Append(to_string(I32Max \div 10), "8"),
      << "0" >> \o to_string(I32Max),
      to_string(I32Max) \o << "0" >>,
      << "1", "2", "x" >>, << "1", "+", "2" >>, << "+", "-", "1" >>,
      << "-" >> \o Append(to_string(I32Max \div 10), "8") }

PageInputs ==
    PageTexts \cup { Some(t) : t \in ShortTexts } \cup { Some(t) : t \in LongTexts }

PageInit ==
    /\ table \in SeedTables
    /\ auto_increment = Len(table) + 1
    /\ now = IF table = << >> THEN 0 ELSE 1
    /\ created = << >>
    /\ pc = "get_staff"
    /\ event \in { MkEvent("ApiGatewayV2", "GET", "/staff",
                           [ page |-> p, new |-> None, staff_id |-> id ], NoBody) :
                   p \in PageInputs, id \in { None, Some(to_string(1)) } }
    /\ method = "GET"
    /\ path = "/staff"
    /\ conn = TRUE
    /\ acquired = 1
    /\ stmts = << >>
    /\ flow = "read"
    /\ page_num = 0
    /\ showform = FALSE
    /\ staff = << >>
    /\ payload = None
    /\ logged_key = None
    /\ result = NoResult

PageNext ==
    \/ get_staff
    \/ get_single_staff
    \/ get_list_staff
    \/ render

PageSpec == PageInit /\ [][PageNext]_vars

-----------------------------------------------------------------------------
(* Vocabulary of the properties *)

IsGetStaff(e) ==
    e.context = "ApiGatewayV2" /\ e.http_method = "GET" /\ e.raw_http_path = "/staff"
IsPostStaff(e) ==
    e.context = "ApiGatewayV2" /\ e.http_method = "POST" /\ e.raw_http_path = "/staff"

\* the router has dispatched this invocation (or refused to)
RouterRan == acquired >= 1 /\ pc \notin { "idle", "connect", "router" }

\* the read flow has resolved its parameters
ParamsResolved ==
    flow = "read" /\ pc \in { "get_single_staff", "get_list_staff", "render", "done" }

Ops == { stmts[i].op : i \in 1..Len(stmts) }

\* s is an optional "+" followed by one digit or more
Unsigned(s) == IF starts_with(s, "+") THEN SubSeq(s, 2, Len(s)) ELSE s
WellFormed(s) ==
    LET u == Unsigned(s)
    IN  Len(u) >= 1 /\ \A i \in 1..Len(u) : IsDigit(u[i])

\* the digits of a well formed s without their leading zeros
Significant(s) ==
    LET u == Unsigned(s)
        nz == { i \in 1..Len(u) : u[i] # "0" }
    IN  IF nz = {} THEN << "0" >>
        ELSE SubSeq(u, CHOOSE i \in nz : \A j \in nz : i <= j, Len(u))

\* digit strings of one length, compared as numbers
DigitsLeq(a, b) ==
    \/ a = b
    \/ \E i \in 1..Len(a) :
        /\ \A j \in 1..(i - 1) : a[j] = b[j]
        /\ DigitVal(a[i]) < DigitVal(b[i])

\* the number s writes fits the page type
FitsI32(s) ==
    LET z == Significant(s)
        top == to_string(I32Max)
    IN  Len(z) < Len(top) \/ (Len(z) = Len(top) /\ DigitsLeq(z, top))

-----------------------------------------------------------------------------
(* C1: routing is exact and total.  Once the router has run, GET /staff    *)
(* has entered exactly the read flow, POST /staff exactly the create flow, *)
(* and every other (method, path), the "UNKNOWN" of a context that is not  *)
(* API Gateway V2 included, has ended in the not-matched panic with no     *)
(* response and no statement issued.                                       *)
C1_RoutingExactAndTotal ==
    RouterRan =>
        /\ IsGetStaff(event) =>
            /\ flow = "read"
            /\ Ops \subseteq { "select_by_id", "select_page" }
            /\ result.status # StatusSeeOther
        /\ IsPostStaff(event) =>
            /\ flow = "create"
            /\ Ops \subseteq { "insert" }
            /\ result.status # StatusOk
        /\ ~IsGetStaff(event) /\ ~IsPostStaff(event) =>
            /\ flow = "none"
            /\ pc = "done"
            /\ result = Panic("Failed to match method and path")
            /\ stmts = << >>

\* a GET /staff of a context without a method was refused by the router
C1_Witness ==
    /\ pc = "done"
    /\ acquired = 1
    /\ event.context = "Alb"
    /\ event.http_method = "GET"
    /\ event.raw_http_path = "/staff"
    /\ result.kind = "panic"

(* C2: page resolution.  The resolved page is 0 when the page parameter is *)
(* absent, begins with "-", or is no integer of the page type; otherwise   *)
(* it is the number the text writes.  It is never negative.                *)
C2_PageResolution ==
    ParamsResolved =>
        LET page == event.query.page IN
        /\ page_num >= 0
        /\ IF \/ page = None
              \/ starts_with(Unwrap(page), "-")
              \/ ~WellFormed(Unwrap(page))
              \/ ~FitsI32(Unwrap(page))
            THEN page_num = 0
            ELSE to_string(page_num) = Significant(Unwrap(page))

\* a signed text that is not negative has been resolved to its value
C2_Witness ==
    /\ pc = "render"
    /\ event.query.page = Some(<< "+", "9" >>)
    /\ page_num = 9

(* C3: the offset bound into the page listing is ten times the resolved    *)
(* page, for every page the read flow can resolve.                         *)
C3_OffsetIsTenTimesPage ==
    \A i \in 1..Len(stmts) :
        stmts[i].op = "select_page" =>
            /\ stmts[i].offset >= 0
            /\ stmts[i].offset % PageSize = 0
            /\ stmts[i].offset \div PageSize = page_num

(* C4: the pagination of every view model has page = the resolved page,    *)
(* next = page + 1 and prev = page - 1, at every page of the page type.    *)
C4_PaginationAdjacent ==
    IsSome(result.view) =>
        LET p == Unwrap(result.view).pagination IN
        /\ p.page = page_num
        /\ p.next > p.page
        /\ p.next - p.page = 1
        /\ p.prev < p.page
        /\ p.page - p.prev = 1

(* C5: a POST /staff whose body is an object with any of the five text     *)
(* fields, staff_id absent or present, and whose insert the store does not *)
(* reject, issues exactly one insert and answers 303 with Location /staff. *)
C5_CreateSucceeds ==
    /\ pc = "done"
    /\ acquired = 1
    /\ IsPostStaff(event)
    /\ event.body.kind = "object"
    /\ result.kind # "error"
    => /\ result = Redirect
       /\ Len(stmts) = 1
       /\ stmts[1].op = "insert"

(* C6: the read flow issues the single lookup, and nothing else, exactly   *)
(* when staff_id is present, and the page listing, and nothing else, when  *)
(* it is absent; a lookup that matches no row panics instead of rendering  *)
(* an empty list, and one that matches yields exactly one record.          *)
C6_ReadBranchAndLookupMiss ==
    ParamsResolved =>
        LET id == event.query.staff_id
            matches == { i \in 1..Len(table) :
                            to_string(table[i].staff_id) = Unwrap(id) }
        IN
        /\ Len(stmts) <= 1
        /\ IsSome(id) =>
            /\ \A i \in 1..Len(stmts) :
                stmts[i].op = "select_by_id" /\ stmts[i].id_text = Unwrap(id)
            /\ pc = "render" => Len(staff) = 1
            /\ result.kind = "response" =>
                /\ Len(Unwrap(result.view).staff) = 1
                /\ \E i \in matches :
                    Unwrap(result.view).staff[1] = SelectColumns(table[i])
            /\ pc = "done" /\ matches = {} /\ result.kind # "error" =>
                result = Panic("unwrap on None")
        /\ ~IsSome(id) =>
            \A i \in 1..Len(stmts) : stmts[i].op = "select_page"

\* a lookup of an identity no row carries has panicked
C6_Witness ==
    /\ pc = "done"
    /\ flow = "read"
    /\ event.query.staff_id = Some(to_string(42))
    /\ IsSome(event.query.page)
    /\ result = Panic("unwrap on None")

(* C7: the page listing returns the rows at positions offset+1 ..          *)
(* offset+10 of the table in descending order of last_update: at most ten  *)
(* records, none when the offset is at or past the size of the table.      *)
C7_PageListing ==
    /\ flow = "read"
    /\ ~IsSome(event.query.staff_id)
    /\ pc = "render" \/ result.kind = "response"
    => LET offset == stmts[1].offset
           n == Len(table)
           updated(rec) ==
               table[CHOOSE i \in 1..n : table[i].staff_id = rec.staff_id].last_update
           newer(rec) == Cardinality({ i \in 1..n : table[i].last_update > updated(rec) })
           as_new(rec) == Cardinality({ i \in 1..n : table[i].last_update >= updated(rec) })
       IN
       /\ Len(staff) <= PageSize
       /\ Len(staff) = IF offset >= n THEN 0
                       ELSE IF n - offset >= PageSize THEN PageSize ELSE n - offset
       /\ \A k \in 1..Len(staff) :
            /\ \E i \in 1..n : staff[k] = SelectColumns(table[i])
            /\ newer(staff[k]) <= offset + k - 1
            /\ as_new(staff[k]) >= offset + k
       /\ \A k, l \in 1..Len(staff) :
            k < l => /\ staff[k].staff_id # staff[l].staff_id
                     /\ updated(staff[k]) >= updated(staff[l])

\* a full page was cut out of a longer table
C7_Witness ==
    /\ pc = "render"
    /\ ~IsSome(event.query.staff_id)
    /\ Len(staff) = PageSize
    /\ Len(table) > PageSize
    /\ Len(created) = 1

C9_ConnectionLifecycle ==
    /\ acquired <= 1
    /\ Len(stmts) <= 1
    /\ \A i \in 1..Len(stmts) : stmts[i].held
    /\ conn => acquired = 1
    /\ stmts # << >> => acquired = 1
    /\ pc \in { "idle", "connect" } => acquired = 0 /\ flow = "none"
    /\ pc \in { "router", "get_staff", "get_single_staff", "get_list_staff",
                "render", "post_staff", "insert", "respond" } => acquired = 1
    /\ flow # "none" => acquired = 1
    /\ pc \in { "idle", "done" } => ~conn

\* an invocation ended in a store error after its one statement
C9_Witness ==
    /\ pc = "done"
    /\ acquired = 1
    /\ Len(stmts) = 1
    /\ result = Failure("store")
    /\ ~conn

(* C10: the table changes only by the one successful insert of a create    *)
(* flow, which appends exactly one row; every other step of every          *)
(* invocation leaves it as it was.                                         *)
C10_StoreFrame ==
    [][ table' # table =>
            /\ pc = "insert"
            /\ pc' = "respond"
            /\ flow = "create"
            /\ IsSome(payload)
            /\ Len(table') = Len(table) + 1
            /\ SubSeq(table', 1, Len(table)) = table
            /\ Len(created') = Len(created) + 1 ]_vars

\* after a create that was stored, a create the store rejected has ended
C10_Witness ==
    /\ pc = "done"
    /\ flow = "create"
    /\ Len(created) = 1
    /\ Len(stmts) = 1
    /\ result = Failure("store")
    /\ Len(table) = auto_increment - 1

====
